---- MODULE Spec2Model ----
(***************************************************************************)
(* RobustEPCAgent / NominalEPCAgent of                                     *)
(* rl_agents/agents/tree_search/robust_epc.py.                             *)
(*                                                                         *)
(* The agent is modelled at the shapes of default_config(): one state      *)
(* component (n = 1), one control (p = 1), one unknown parameter (d = 1),  *)
(* so that every matrix is 1 x 1 and eig / inv / det are exact.  Vectors   *)
(* are tuples, matrices are tuples of rows.                                *)
(*                                                                         *)
(* Reals are fixed-point integers:                                         *)
(*   lambda and G         in units of 10^-6  (lambda = 1e-6 is 1),         *)
(*   theta, beta, d_theta, a0, da   in units of 10^-3.                     *)
(* sqrt is the integer square root and log is a piecewise-linear           *)
(* approximation of the natural logarithm (both round down).               *)
(***************************************************************************)
EXTENDS Integers, Sequences, FiniteSets, TLC

\* ------------------------------------------------------------------ bounds

\* Most samples the Sample Store holds (a recording that would exceed it is
\* not taken).
MaxData == 2

\* Most environment steps the sub-planner takes on the copy in one plan().
MaxRollout == 1

\* -------------------------------------------------------------- fixed point

\* the two fixed-point scales
Micro == 10 ^ 6
Milli == 10 ^ 3

\* x / y rounded towards zero
Quot(x, y) == IF x < 0 THEN -((-x) \div y) ELSE x \div y

\* Newton's iteration for the integer square root, from an estimate r >= sqrt(x)
RECURSIVE SqrtNewton(_, _)
SqrtNewton(x, r) ==
    LET r2 == (r + x \div r) \div 2
    IN  IF r2 >= r THEN r ELSE SqrtNewton(x, r2)

\* np.sqrt on a non-negative fixed-point argument: floor(sqrt(x))
sqrt(x) ==
    IF x = 0 THEN 0
    ELSE SqrtNewton(x, IF x < 10 ^ 2 THEN 10
                       ELSE IF x < 10 ^ 4 THEN 10 ^ 2
                       ELSE IF x < 10 ^ 6 THEN 10 ^ 3
                       ELSE IF x < 10 ^ 8 THEN 10 ^ 4
                       ELSE 46340)

RECURSIVE FloorLog2(_)
FloorLog2(x) == IF x < 2 THEN 0 ELSE 1 + FloorLog2(x \div 2)

RECURSIVE Pow2(_)
Pow2(k) == IF k = 0 THEN 1 ELSE 2 * Pow2(k - 1)

\* np.log of an integer x >= 1, in units of 10^-3:
\* ln x = ln 2 * log2 x, log2 x ~ k + (x - 2^k) / 2^k for 2^k <= x < 2^(k+1)
\* (monotone, within 0.06 of the logarithm)
log(x) ==
    LET k == FloorLog2(x)
        p == Pow2(k)
        frac == IF p >= Micro THEN ((x - p) \div (p \div Milli))
                              ELSE ((x - p) * Milli) \div p
    IN  (693 * (k * Milli + frac)) \div Milli

\* ------------------------------------------------------------ configuration

\* default_config(): "sigma": [[1]], "delta": 0.9 (delta = DeltaNum / DeltaDen)
sigma == 1
DeltaNum == 9
DeltaDen == 10
\* phi.shape[0] at the default shape "phi": [[[1]]]
d == 1

\* RobustEPCAgent.default_config(), the keys the agent reads; lambda_ is in
\* units of 10^-6, every matrix is given by its single entry
default_config ==
    [lambda_ |-> 1, parameter_bound |-> 1, phi |-> 1, A |-> 1, B |-> 1,
     D |-> 1, omega |-> 0]

\* the configurations an agent is constructed with: the default one, and one
\* with another regularisation, parameter bound, feature and disturbance bound
Configs ==
    {default_config,
     [default_config EXCEPT !.lambda_ = 4, !.parameter_bound = 2, !.phi = 2,
                            !.omega = 1]}

Classes == {"RobustEPCAgent", "NominalEPCAgent"}

\* ------------------------------------------------------------------ samples

\* a sample is the triple (state, control, derivative) the code appends; with
\* A = B = 1 the residual dx - ax - bu of these is -1, 0 and 1
Samples == {<<0, 1, 0>>, <<1, 0, 1>>, <<-1, 1, 1>>}

\* values of the live environment's dynamics.state when plan() is called
\* (it only becomes x0 of the robust model)
StateVals == {1}

\* ------------------------------------------------------------------ state

VARIABLES
    cls,            \* the agent's class
    config,         \* self.config
    data,           \* self.data
    ellipsoids,     \* self.ellipsoids
    callback,       \* self.env.unwrapped.automatic_record_callback
    robust_env,     \* self.robust_env
    sub_agent_env,  \* self.sub_agent.env
    last            \* the last call: its name, and the steps the sub-planner took in it

vars == <<cls, config, data, ellipsoids, callback, robust_env, sub_agent_env, last>>

\* Python's None, for a callback slot and for self.robust_env
None == "None"
NoEnv == [none |-> TRUE]

Last(s) == s[Len(s)]

\* the value of last after a call in which no sub-planner ran
Call(op) == [op |-> op, steps |-> 0]

\* ---------------------------------------------------------------- ellipsoid

\* np.squeeze(self.phi @ state, axis=2).transpose(): the 1 x 1 feature matrix
phi_n(cfg, s) == cfg.phi * s[1]

\* dx - ax - bu for one sample
y_n(cfg, s) == s[3] - cfg.A * s[1] - cfg.B * s[2]

\* np.linalg.inv(self.config["sigma"])
sigma_inv == 1 \div sigma

\* g_n that keeps the last sample's term instead of the sum
g_n_last_only(cfg, dat) ==
    IF dat = <<>> THEN 0
    ELSE phi_n(cfg, Last(dat)) * sigma_inv * phi_n(cfg, Last(dat))

\* np.sum([np.transpose(phi_n) @ sigma_inv @ phi_n for phi_n in phi], axis=0)
RECURSIVE g_n(_, _)
g_n(cfg, dat) ==
    IF dat = <<>> THEN 0
    ELSE g_n(cfg, Tail(dat))
         + phi_n(cfg, Head(dat)) * sigma_inv * phi_n(cfg, Head(dat))

\* np.sum([np.transpose(phi[n]) @ sigma_inv @ y[n] for n in range(...)], axis=0)
RECURSIVE phi_y(_, _)
phi_y(cfg, dat) ==
    IF dat = <<>> THEN 0
    ELSE phi_y(cfg, Tail(dat))
         + phi_n(cfg, Head(dat)) * sigma_inv * y_n(cfg, Head(dat))

\* np.linalg.det of a 1 x 1 matrix
det(m) == m[1][1]

\* np.linalg.inv(g) @ b for a 1 x 1 matrix g (units 10^-6) and an integer b,
\* in units of 10^-3: b * 10^9 / g, rounded towards zero
solve(g, b) ==
    IF det(g) >= Milli THEN Quot(b * Micro, det(g) \div Milli)
                       ELSE Quot(b * Micro, det(g)) * Milli

\* log(1 / delta) for "delta": 0.9, in units of 10^-3
log_inv_delta == log(DeltaDen) - log(DeltaNum)

\* beta_n of a weight matrix G (units 10^-6), result in units of 10^-3:
\* sqrt(2 log(sqrt(det(G) / lambda^d) / delta)) + sqrt(lambda d) parameter_bound
beta_n(cfg, g) ==
    LET ratio == det(g) \div cfg.lambda_
        lg == log(ratio) \div 2 + log_inv_delta
    IN  sqrt(2 * lg * Milli) + sqrt(cfg.lambda_ * d) * cfg.parameter_bound

\* g_n_lambda of ellipsoid(), in units of 10^-6: lambda_ * np.identity(d)
\* without samples, g_n + lambda_ * np.identity(d) with samples
g_n_lambda(cfg, dat) ==
    IF dat = <<>> THEN <<<<cfg.lambda_>>>>
    ELSE <<<<Micro * g_n(cfg, dat) + cfg.lambda_>>>>

\* theta_n_lambda of ellipsoid(), squeezed, in units of 10^-3
theta_n_lambda(cfg, dat) ==
    IF dat = <<>> THEN <<0>>
    ELSE <<solve(g_n_lambda(cfg, dat), phi_y(cfg, dat))>>

\* RobustEPCAgent.ellipsoid(): (theta_n_lambda, g_n_lambda, beta_n) of the samples
ellipsoid(cfg, dat) ==
    LET g == g_n_lambda(cfg, dat)
    IN  [theta |-> theta_n_lambda(cfg, dat), G |-> g, beta |-> beta_n(cfg, g)]

\* ----------------------------------------------------------------- polytope

\* np.linalg.eig of a 1 x 1 matrix: its entry, and the eigenvector [[1]]
eig(g) == [values |-> <<g[1][1]>>, p |-> <<<<1>>>>]

\* m = np.sqrt(beta_n) * np.linalg.inv(p) @ np.diag(np.sqrt(1 / values)),
\* in units of 10^-3 (values are in units of 10^-6, so sqrt(1 / v) = 10^3 / sqrt(v))
m_of(ell) ==
    LET e == eig(ell.G)
    IN  <<<<(sqrt(ell.beta * Milli) * e.p[1][1] * Milli) \div sqrt(e.values[1])>>>>

\* np.array(list(itertools.product([-1, 1], repeat=d)))
h == <<<<-1>>, <<1>>>>

\* np.clip(x, lo, hi)
clip(x, lo, hi) == IF x < lo THEN lo ELSE IF x > hi THEN hi ELSE x

\* [m @ h_k for h_k in h], before clipping
m_h(ell) ==
    LET m == m_of(ell)
    IN  [k \in 1..Len(h) |-> <<m[1][1] * h[k][1]>>]

\* d_theta_k without np.clip
d_theta_k_noclip(cfg, ell) == m_h(ell)

\* d_theta_k = np.clip([m @ h_k for h_k in h], -parameter_bound, parameter_bound)
d_theta_k(cfg, ell) ==
    LET mh == m_h(ell)
    IN  [k \in 1..Len(h) |->
            <<clip(mh[k][1], -(cfg.parameter_bound * Milli),
                   cfg.parameter_bound * Milli)>>]

\* np.tensordot(v, self.phi, axes=[0, 0]) for a vector v of length d = 1
tensordot(cfg, v) == <<<<v[1] * cfg.phi>>>>

\* RobustEPCAgent.polytope() on the latest ellipsoid
polytope(cfg, ells) ==
    LET ell == Last(ells)
        dts == d_theta_k(cfg, ell)
    IN  [a0 |-> <<<<cfg.A * Milli + tensordot(cfg, ell.theta)[1][1]>>>>,
         da |-> [k \in 1..Len(dts) |-> tensordot(cfg, dts[k])]]

\* np.zeros(a.shape)
zeros_like(a) == [i \in 1..Len(a) |-> [j \in 1..Len(a[i]) |-> 0]]

\* NominalEPCAgent.polytope() that returns super().polytope() as it is
NominalEPCAgent_polytope_super(cfg, ells) == polytope(cfg, ells)

\* NominalEPCAgent.polytope()
NominalEPCAgent_polytope(cfg, ells) ==
    LET sup == polytope(cfg, ells)
    IN  [a0 |-> sup.a0, da |-> <<zeros_like(sup.a0)>>]

\* self.polytope(), dispatched on the agent's class
self_polytope(c, cfg, ells) ==
    IF c = "NominalEPCAgent" THEN NominalEPCAgent_polytope(cfg, ells)
                             ELSE polytope(cfg, ells)

\* ------------------------------------------------------------------- model

\* robustify_env() without line 101: the copy keeps the hook of the live
\* environment it was copied from
robustify_env_keep_callback(c, cfg, ells, env) ==
    LET poly == self_polytope(c, cfg, ells)
    IN  [lpv |-> [a0 |-> poly.a0, da |-> poly.da, x0 |-> env.state,
                  b |-> cfg.D, d_i |-> cfg.omega],
         automatic_record_callback |-> env.automatic_record_callback]

\* RobustEPCAgent.robustify_env(): the copy of the live environment env that
\* carries the robust model and has its recording hook disabled
robustify_env(c, cfg, ells, env) ==
    LET poly == self_polytope(c, cfg, ells)
    IN  [lpv |-> [a0 |-> poly.a0, da |-> poly.da, x0 |-> env.state,
                  b |-> cfg.D, d_i |-> cfg.omega],
         automatic_record_callback |-> None]

\* --------------------------------------------------------------- recording

\* automatic_record() that inserts the sample at the front of data
automatic_record_prepend(cfg, st, s) ==
    LET dat == <<s>> \o st.data
    IN  [data |-> dat, ellipsoids |-> Append(st.ellipsoids, ellipsoid(cfg, dat))]

\* the body of RobustEPCAgent.automatic_record() on the agent's (data, ellipsoids)
automatic_record_body(cfg, st, s) ==
    LET dat == Append(st.data, s)
    IN  [data |-> dat, ellipsoids |-> Append(st.ellipsoids, ellipsoid(cfg, dat))]

\* one environment step: the environment invokes its recording hook cb, if any
env_step(cfg, st, cb, s) ==
    IF cb = None THEN st ELSE automatic_record_body(cfg, st, s)

\* the steps the sub-planner takes on the environment it was handed
RECURSIVE rollout(_, _, _, _)
rollout(cfg, st, cb, steps) ==
    IF steps = <<>> THEN st
    ELSE rollout(cfg, env_step(cfg, st, cb, Head(steps)), cb, Tail(steps))

\* the step sequences of one sub-planner call: up to MaxRollout steps from
\* one simulated sample
Rollouts == {[i \in 1..k |-> s] : k \in 0..MaxRollout, s \in Samples}

\* ------------------------------------------------------------- transitions

\* RobustEPCAgent.__init__ / NominalEPCAgent.__init__
Init ==
    /\ cls \in Classes
    /\ \E c \in Configs :
          config = IF cls = "NominalEPCAgent" THEN [c EXCEPT !.omega = 0] ELSE c
    /\ callback = "automatic_record"
    /\ data = <<>>
    /\ robust_env = NoEnv
    /\ sub_agent_env = "env"
    /\ ellipsoids = <<ellipsoid(config, <<>>)>>
    /\ last = Call("init")

\* record() without the test of the live environment's hook
record_unguarded(s) ==
    /\ Len(data) < MaxData
    /\ data' = Append(data, s)
    /\ last' = Call("record")
    /\ UNCHANGED <<cls, config, ellipsoids, callback, robust_env, sub_agent_env>>

\* RobustEPCAgent.record(): s is (state, action_to_control(action), dynamics.derivative)
record(s) ==
    /\ IF callback = None
       THEN Len(data) < MaxData /\ data' = Append(data, s)
       ELSE data' = data
    /\ last' = Call("record")
    /\ UNCHANGED <<cls, config, ellipsoids, callback, robust_env, sub_agent_env>>

\* RobustEPCAgent.automatic_record(), invoked by the live environment's hook
automatic_record(s) ==
    /\ Len(data) < MaxData
    /\ callback = "automatic_record"
    /\ LET st == automatic_record_body(config, [data |-> data, ellipsoids |-> ellipsoids], s)
       IN  data' = st.data /\ ellipsoids' = st.ellipsoids
    /\ last' = Call("automatic_record")
    /\ UNCHANGED <<cls, config, callback, robust_env, sub_agent_env>>

\* where a plan() call ends: an exception out of polytope(), LPV(),
\* safe_deepcopy_env() or sub_agent.plan(), or the return of sub_agent.plan()
RobustifyRaises == {"polytope_raises", "lpv_raises", "copy_raises"}
PlanOutcomes == RobustifyRaises \cup {"planner_raises", "returns"}

\* RobustEPCAgent.plan(): x0 is the live environment's dynamics.state; the call
\* ends in one of PlanOutcomes, the sub-planner having taken steps on the copy
plan(x0) ==
    LET env == [state |-> x0, automatic_record_callback |-> callback]
        renv == robustify_env(cls, config, ellipsoids, env)
    IN  \E outcome \in PlanOutcomes :
          /\ IF outcome \in RobustifyRaises
             THEN /\ UNCHANGED <<robust_env, sub_agent_env, data, ellipsoids>>
                  /\ last' = Call("plan_raised")
             ELSE /\ robust_env' = renv
                  /\ sub_agent_env' = "robust_env"
                  /\ \E steps \in Rollouts :
                       LET st == rollout(config, [data |-> data, ellipsoids |-> ellipsoids],
                                         renv.automatic_record_callback, steps)
                       IN  /\ data' = st.data
                           /\ ellipsoids' = st.ellipsoids
                           /\ last' = [op |-> IF outcome = "returns" THEN "plan_returned"
                                                                    ELSE "plan_raised",
                                       steps |-> Len(steps)]
          /\ UNCHANGED <<cls, config, callback>>

\* reset() that clears data and keeps the ellipsoid history
reset_keep_history ==
    /\ data' = <<>>
    /\ last' = Call("reset")
    /\ UNCHANGED <<cls, config, ellipsoids, callback, robust_env, sub_agent_env>>

\* RobustEPCAgent.reset()
reset ==
    /\ data' = <<>>
    /\ ellipsoids' = <<ellipsoid(config, <<>>)>>
    /\ last' = Call("reset")
    /\ UNCHANGED <<cls, config, callback, robust_env, sub_agent_env>>

\* The live environment's automatic_record_callback slot is the environment's:
\* __init__ installs the agent's hook in it, and record() tests it on every
\* call because its owner may clear it (manual recording) or install it again.
set_automatic_record_callback(cb) ==
    /\ callback # cb
    /\ callback' = cb
    /\ last' = Call("set_callback")
    /\ UNCHANGED <<cls, config, data, ellipsoids, robust_env, sub_agent_env>>

Next ==
    \/ \E s \in Samples : record(s)
    \/ \E s \in Samples : automatic_record(s)
    \/ \E x0 \in StateVals : plan(x0)
    \/ reset
    \/ \E cb \in {None, "automatic_record"} : set_automatic_record_callback(cb)

Spec == Init /\ [][Next]_vars

\* ------------------------------------------------------------------- claims

PlanOps == {"plan_returned", "plan_raised"}

Abs(x) == IF x < 0 THEN -x ELSE x

IsPrefix(s, t) == Len(s) <= Len(t) /\ SubSeq(t, 1, Len(s)) = s

C3_PlanLeavesStoreAndHistory ==
    [][last'.op \in PlanOps => data' = data /\ ellipsoids' = ellipsoids]_vars

\* a plan() that raised before the sub-planner was ever handed a copy, with
\* samples and their ellipsoids in place
C3_Witness ==
    /\ last.op = "plan_raised"
    /\ sub_agent_env = "env"
    /\ Len(data) = 2
    /\ Len(ellipsoids) = 3

\* C4: the copy handed to the sub-planner has its recording hook disabled, the
\* live environment's hook is left as it was, and the steps the sub-planner
\* takes on the copy append neither a sample nor an ellipsoid.
C4_RolloutsNotRecorded ==
    /\ [](robust_env # NoEnv => robust_env.automatic_record_callback = None)
    /\ [][last'.op \in PlanOps =>
            /\ callback' = callback
            /\ (last'.steps > 0 => Len(data') = Len(data)
                                   /\ Len(ellipsoids') = Len(ellipsoids))]_vars

\* the sub-planner has stepped the copy while the live hook is installed
C4_Witness ==
    /\ last.op = "plan_returned"
    /\ last.steps > 0
    /\ callback = "automatic_record"
    /\ robust_env # NoEnv
    /\ data # <<>>

\* C5: between resets the Sample Store only grows at its end, by one sample
\* per recording: the earlier sequence is a prefix of the later one, and only
\* reset() empties it.
C5_AppendOnly ==
    [][/\ last'.op # "reset" => IsPrefix(data, data') /\ Len(data') <= Len(data) + 1
       /\ last'.op = "reset" => data' = <<>>]_vars

\* two samples stored, the second one through the automatic path
C5_Witness ==
    /\ last.op = "automatic_record"
    /\ Len(data) = 2
    /\ data[1] # data[2]

\* lambda * I_d and the zero vector of length d (d = 1)
lambda_identity(cfg) == <<<<cfg.lambda_>>>>
zero_vector == <<0>>

\* C6: whenever the Sample Store is empty, ellipsoid() returns the weight
\* matrix lambda * I_d and the zero point estimate, and the history is exactly
\* that one prior-only ellipsoid.
C6_PriorOnlyEllipsoid ==
    data = <<>> =>
        LET e == ellipsoid(config, data)
        IN  /\ e.G = lambda_identity(config)
            /\ e.theta = zero_vector
            /\ ellipsoids = <<e>>

\* a reset() after samples had been recorded and planned with
C6_Witness ==
    /\ last.op = "reset"
    /\ data = <<>>
    /\ robust_env # NoEnv
    /\ robust_env.lpv.a0 # <<<<config.A * Milli>>>>

\* C7: every vertex parameter vector polytope() generates from the latest
\* ellipsoid has, after clipping, every component within [-S, S]
\* (S = parameter_bound), and the vertex matrices are built from these vectors.
C7_VerticesWithinBound ==
    LET S == config.parameter_bound * Milli
        dts == d_theta_k(config, Last(ellipsoids))
        poly == polytope(config, ellipsoids)
    IN  /\ \A k \in 1..Len(dts) : \A i \in 1..Len(dts[k]) : Abs(dts[k][i]) <= S
        /\ Len(poly.da) = Len(dts)
        /\ \A k \in 1..Len(dts) : poly.da[k] = tensordot(config, dts[k])
        /\ (cls = "RobustEPCAgent" /\ robust_env # NoEnv) =>
              \A k \in 1..Len(robust_env.lpv.da) :
                  Abs(robust_env.lpv.da[k][1][1]) <= S * config.phi

\* a robust plan() on an ellipsoid whose unclipped vertices exceed the bound
C7_Witness ==
    /\ cls = "RobustEPCAgent"
    /\ last.op = "plan_returned"
    /\ data # <<>>
    /\ m_h(Last(ellipsoids))[2][1] > config.parameter_bound * Milli
    /\ robust_env.lpv.da[2][1][1] = config.parameter_bound * Milli * config.phi

\* C8: NominalEPCAgent.polytope() returns exactly one vertex, the all-zero
\* matrix of the shape of A0, whatever the ellipsoid; its A0 is the one the
\* robust polytope() computes from the same ellipsoid.
C8_NominalSingleZeroVertex ==
    cls = "NominalEPCAgent" =>
        LET nom == self_polytope(cls, config, ellipsoids)
            rob == polytope(config, ellipsoids)
        IN  /\ Len(nom.da) = 1
            /\ Len(nom.da[1]) = Len(nom.a0)
            /\ \A i \in 1..Len(nom.a0) :
                  /\ Len(nom.da[1][i]) = Len(nom.a0[i])
                  /\ \A j \in 1..Len(nom.a0[i]) : nom.da[1][i][j] = 0
            /\ nom.a0 = rob.a0
            /\ robust_env # NoEnv => /\ Len(robust_env.lpv.da) = 1
                                     /\ robust_env.lpv.da[1] = zeros_like(robust_env.lpv.a0)

\* a nominal plan() on an ellipsoid with a non-zero estimate and non-zero
\* robust vertices
C8_Witness ==
    /\ cls = "NominalEPCAgent"
    /\ last.op = "plan_returned"
    /\ Last(ellipsoids).theta # zero_vector
    /\ polytope(config, ellipsoids).da[2] # zeros_like(robust_env.lpv.a0)
    /\ robust_env.lpv.a0 # <<<<config.A * Milli>>>>

\* C9: appending any sample never decreases det(G) of the weight matrix
\* ellipsoid() computes, and the determinants along the ellipsoid history are non-decreasing.
C9_DetMonotone ==
    /\ \A s \in Samples :
          det(g_n_lambda(config, Append(data, s))) >= det(g_n_lambda(config, data))
    /\ \A i \in 1..Len(ellipsoids) : \A j \in i..Len(ellipsoids) :
          det(ellipsoids[i].G) <= det(ellipsoids[j].G)

\* a history in which one sample left det(G) as it was and the next raised it
C9_Witness ==
    /\ Len(ellipsoids) = 3
    /\ det(ellipsoids[1].G) = det(ellipsoids[2].G)
    /\ det(ellipsoids[2].G) < det(ellipsoids[3].G)

\* C10: record() appends a sample if and only if the live environment's
\* automatic_record_callback is unset; while it is installed record() leaves
\* data and the ellipsoid history unchanged.
C10_RecordOnlyWhenHookUnset ==
    [][last'.op = "record" =>
          /\ (data' # data) <=> (callback = None)
          /\ callback = None => Len(data') = Len(data) + 1 /\ IsPrefix(data, data')
          /\ callback # None => data' = data /\ ellipsoids' = ellipsoids]_vars

\* record() called with the hook installed, after the hook has stored samples
C10_Witness ==
    /\ last.op = "record"
    /\ callback = "automatic_record"
    /\ Len(data) = 2
    /\ Len(ellipsoids) = 3

====
